---- MODULE Spec2Model ----
(***************************************************************************)
(* A model of src/src/mep.rs: the multi-expression program genome Mep,     *)
(* its constructor (Mep::new), crossover (mate), self-adaptive mutation    *)
(* (mutate) and lazy memoized evaluation (execute, ResultIterator::next).  *)
(*                                                                         *)
(* Sequences are 1-based here and 0-based in the source: the operation at  *)
(* local index k of the source is program[k + 1] in the model.             *)
(***************************************************************************)
EXTENDS Integers, Sequences, FiniteSets, TLC

\* ---------------------------------------------------------------- bounds
\* Longest payload sequence handed to Mep::new in the lifecycle model.
MaxLen == 4
\* Largest input arity handed to Mep::new.
MaxInputs == 1
\* Instruction payloads are 0..MaxIns.
MaxIns == 1
\* Cap of unit_mutate_size and crossover_points (unbounded in the source).
MaxParam == 2
\* Longest parent handed to mate in the crossover model.
MaxMateLen == 7
\* Longest genome handed to mutate in the mutation model.
MaxMutLen == 2
\* Longest payload sequence handed to Mep::new in the constructor model.
MaxNewLen == 2
\* Longest genome handed to execute in the evaluation model.
MaxEvalLen == 3
\* Values of type Param are 0..ValueMod - 1.
ValueMod == 5

VARIABLES
    a,       \* the genome under evolution (parents.0 of mate), or NoMep
    b,       \* parents.1 of mate, or NoMep
    child,   \* the Mep returned by the last mate call, or NoMep
    points,  \* the crossover points drawn by the last mate call, in draw order
    draws,   \* number of values the rng produced during the last mate call
    err,     \* "none", or the panic that ended the run
    pc,      \* "idle", or "mutating" inside the loop of mutate
    last,    \* the last call: "none", "new", "mutate", "mate", "execute"
    outputs, \* the outputs argument of the last execute call
    iter,    \* the ResultIterator returned by execute, or NoIter
    calls,   \* calls[k + 1]: invocations of processor for operation k
    out,     \* the values next() has returned so far, in order
    args,    \* the arguments of the last recorded Mep::new call, or NoArgs
    mlog     \* the last recorded pass of mutate's loop that kept its
             \* candidate: the candidate, the arm taken and a bit that
             \* flips at every such pass; or NoLog

vars == <<a, b, child, points, draws, err, pc, last, outputs, iter, calls, out, args, mlog>>

NoMep == [none |-> TRUE]
NoIter == [none |-> TRUE]
NoArgs == [none |-> TRUE]
NoLog == [none |-> TRUE]

Ins == 0..MaxIns

Min(x, y) == IF x < y THEN x ELSE y

\* rng.gen_range(low, high): the values it can return. The range is
\* half-open, and gen_range panics when it is empty (low >= high).
GenRange(low, high) == low..(high - 1)

\* -------------------------------------------------------------- data model
Opcode(ins, first, second) ==
    [instruction |-> ins, first |-> first, second |-> second]

Mep(program, unit_mutate_size, crossover_points, inputs) ==
    [program |-> program, unit_mutate_size |-> unit_mutate_size,
     crossover_points |-> crossover_points, inputs |-> inputs]

\* ------------------------------------------------------------- Mep::new
\* The sequences of operand draws Mep::new can make for `len` payloads:
\* the draw for local index k comes from gen_range(0, k + inputs).
OperandDraws(inputs, len) ==
    {d \in [1..len -> 0..(inputs + len)] :
        \A i \in 1..len : d[i] \in GenRange(0, (i - 1) + inputs)}

\* Mep::new panics when some gen_range(0, index + inputs) has an empty range.
NewPanics(inputs, len) ==
    \E i \in 1..len : GenRange(0, (i - 1) + inputs) = {}

\* Lines 69-70 with the two adaptive parameters stored in each other's field.
MepNewSwapped(inputs, unit_mutate_size, crossover_points, payloads, firsts, seconds) ==
    Mep([i \in 1..Len(payloads) |-> Opcode(payloads[i], firsts[i], seconds[i])],
        crossover_points, unit_mutate_size, inputs)

MepNew(inputs, unit_mutate_size, crossover_points, payloads, firsts, seconds) ==
    Mep([i \in 1..Len(payloads) |-> Opcode(payloads[i], firsts[i], seconds[i])],
        unit_mutate_size, crossover_points, inputs)

PayloadSeqs(maxlen) == UNION {[1..n -> Ins] : n \in 0..maxlen}

\* Lines 62-72 for one set of arguments: the panic of gen_range on an
\* empty range, or the genome built from the payloads and the operand draws.
NewOutcome(inputs, ums, cp, payloads) ==
    IF NewPanics(inputs, Len(payloads))
    THEN /\ err' = "EmptyRange"
         /\ UNCHANGED <<a, last>>
    ELSE /\ \E firsts \in OperandDraws(inputs, Len(payloads)),
               seconds \in OperandDraws(inputs, Len(payloads)) :
               a' = MepNew(inputs, ums, cp, payloads, firsts, seconds)
         /\ last' = "new"
         /\ UNCHANGED err

New ==
    /\ err = "none" /\ pc = "idle" /\ a = NoMep
    /\ \E inputs \in 0..MaxInputs, ums \in 1..MaxParam, cp \in 1..MaxParam,
          payloads \in PayloadSeqs(MaxLen) :
          NewOutcome(inputs, ums, cp, payloads)
    /\ UNCHANGED <<b, child, points, draws, pc, outputs, iter, calls, out, args, mlog>>

\* --------------------------------------------------------------- mutate
\* The match on gen_range(0, 2) that moves an adaptive parameter: 0 adds 1,
\* 1 subtracts 1 unless the parameter is already 1.
BumpNoFloor(v, coin) == IF coin = 0 THEN v + 1 ELSE v - 1

Bump(v, coin) ==
    IF coin = 0 THEN v + 1 ELSE IF v > 1 THEN v - 1 ELSE v

\* The range an operand of the operation at local index `choice` is
\* resampled from.
OperandRangeInclusive(m, choice) == GenRange(0, choice + m.inputs + 1)

OperandRange(m, choice) == GenRange(0, choice + m.inputs)

\* Lines 167-171 with the arm for `second` writing `first` as well.
MutateOpBoth(m, choice, kind, v) ==
    [m EXCEPT !.program[choice + 1] =
        IF kind = 0 THEN [@ EXCEPT !.instruction = v]
        ELSE IF kind = 1 THEN [@ EXCEPT !.first = v]
        ELSE [@ EXCEPT !.first = v, !.second = v]]

\* One arm of the match on gen_range(0, 3), applied to the operation at
\* local index `choice`; v is what the mutator callback leaves in the
\* instruction (kind 0) or the resampled operand (kinds 1 and 2).
MutateOp(m, choice, kind, v) ==
    [m EXCEPT !.program[choice + 1] =
        IF kind = 0 THEN [@ EXCEPT !.instruction = v]
        ELSE IF kind = 1 THEN [@ EXCEPT !.first = v]
        ELSE [@ EXCEPT !.second = v]]

\* What the chosen arm can write.
MutateValues(m, choice, kind) ==
    IF kind = 0 THEN Ins ELSE OperandRange(m, choice)

\* Lines 139-155: the two adaptive parameters, each changed with
\* probability 1 / unit_mutate_size; the second test reads the value the
\* first may have just written. Then the loop is entered.
MutateBegin ==
    /\ err = "none" /\ pc = "idle" /\ a # NoMep
    /\ IF GenRange(0, a.unit_mutate_size) = {}
       THEN /\ err' = "EmptyRange"
            /\ UNCHANGED <<a, pc, last>>
       ELSE /\ \E r1 \in GenRange(0, a.unit_mutate_size), c1 \in GenRange(0, 2) :
                 LET ums == IF r1 = 0 THEN Bump(a.unit_mutate_size, c1)
                            ELSE a.unit_mutate_size
                 IN  \E r2 \in GenRange(0, ums), c2 \in GenRange(0, 2) :
                        LET cp == IF r2 = 0 THEN Bump(a.crossover_points, c2)
                                  ELSE a.crossover_points
                        IN  /\ ums <= MaxParam
                            /\ cp <= MaxParam
                            /\ a' = [a EXCEPT !.unit_mutate_size = ums,
                                              !.crossover_points = cp]
            /\ pc' = "mutating"
            /\ last' = "mutate"
            /\ UNCHANGED err
    /\ UNCHANGED <<b, child, points, draws, outputs, iter, calls, out, args, mlog>>

\* The candidates gen_range(0, len) + gen_range(0, unit_mutate_size) of one
\* pass of the loop (line 160).
Choices(m) ==
    {x + y : x \in GenRange(0, Len(m.program)),
             y \in GenRange(0, m.unit_mutate_size)}

\* Line 160 on an empty program: gen_range(0, 0) panics.
MutateEmpty ==
    /\ err = "none" /\ pc = "mutating"
    /\ GenRange(0, Len(a.program)) = {}
    /\ err' = "EmptyRange"
    /\ pc' = "idle"
    /\ UNCHANGED <<a, b, child, points, draws, last, outputs, iter, calls, out, args, mlog>>

\* Lines 162-164: a candidate outside the program ends the call.
MutateStop ==
    /\ err = "none" /\ pc = "mutating"
    /\ \E choice \in Choices(a) : choice >= Len(a.program)
    /\ pc' = "idle"
    /\ UNCHANGED <<a, b, child, points, draws, err, last, outputs, iter, calls, out, args, mlog>>

\* Lines 165-171 for one candidate inside the program and one arm of the
\* match: one of the three fields of that operation is rewritten.
StepOutcome(choice, kind) ==
    /\ choice < Len(a.program)
    /\ IF MutateValues(a, choice, kind) = {}
       THEN /\ err' = "EmptyRange"
            /\ pc' = "idle"
            /\ UNCHANGED a
       ELSE /\ \E v \in MutateValues(a, choice, kind) :
                  a' = MutateOp(a, choice, kind, v)
            /\ UNCHANGED <<err, pc>>

\* Lines 165-171: a candidate inside the program has one of its three
\* fields rewritten, and the loop goes on.
MutateStep ==
    /\ err = "none" /\ pc = "mutating"
    /\ \E choice \in Choices(a), kind \in GenRange(0, 3) :
          StepOutcome(choice, kind)
    /\ UNCHANGED <<b, child, points, draws, last, outputs, iter, calls, out, args, mlog>>

\* ----------------------------------------------------------------- mate
\* Line 84.
TotalInstructions(p0, p1) == Min(Len(p0.program), Len(p1.program))

\* Line 87: the range the number of crossover points is drawn from.
CountRange(n) == GenRange(1, n \div 2)

\* Lines 89-93 without the chained total_instructions of line 91.
CutSetNoSentinel(pts, n) == {pts[i] : i \in DOMAIN pts}

\* Lines 89-93: the drawn points and total_instructions, folded into a
\* BTreeSet.
CutSet(pts, n) == {pts[i] : i \in DOMAIN pts} \cup {n}

\* Line 95: iteration over a BTreeSet is in ascending order.
RECURSIVE Ascending(_)
Ascending(S) ==
    IF S = {} THEN <<>>
    ELSE LET least == CHOOSE x \in S : \A y \in S : x <= y
         IN  <<least>> \o Ascending(S \ {least})

\* Line 97: scan turns the cuts into the ranges prev..x, prev starting at 0.
Ranges(cuts) ==
    [i \in 1..Len(cuts) |->
        [start |-> IF i = 1 THEN 0 ELSE cuts[i - 1], end |-> cuts[i]]]

\* program[range] of line 102: the operations at local indices
\* range.start .. range.end - 1.
Slice(program, range) == SubSeq(program, range.start + 1, range.end)

\* Line 102 with the parents swapped.
DonorSwapped(p0, p1, index) == IF index % 2 = 0 THEN p1 ELSE p0

\* Line 102: the parent a range is copied from, by the parity of its
\* 0-based index.
Donor(p0, p1, index) == IF index % 2 = 0 THEN p0 ELSE p1

\* Lines 99-105: the ranges from index i on, each expanded from its donor
\* and collected in order.
RECURSIVE FlatMap(_, _, _, _)
FlatMap(p0, p1, ranges, i) ==
    IF i > Len(ranges) THEN <<>>
    ELSE Slice(Donor(p0, p1, i - 1).program, ranges[i])
            \o FlatMap(p0, p1, ranges, i + 1)

\* Lines 85-105 with no more of the drawn points used than the first
\* parent's crossover_points.
MateProgramCapped(p0, p1, pts) ==
    FlatMap(p0, p1,
            Ranges(Ascending(CutSet(SubSeq(pts, 1, Min(Len(pts), p0.crossover_points)),
                                    TotalInstructions(p0, p1)))), 1)

\* Lines 85-105: the child's program for the drawn points.
MateProgram(p0, p1, pts) ==
    FlatMap(p0, p1,
            Ranges(Ascending(CutSet(pts, TotalInstructions(p0, p1)))), 1)

\* Lines 107-111 and 113-117 without the + 1 on the upper bound.
BlendRangeHalfOpen(x, y) ==
    IF x < y THEN GenRange(x, y) ELSE GenRange(y, x)

\* Lines 107-111 and 113-117: the range a blended parameter is drawn from.
BlendRange(x, y) ==
    IF x < y THEN GenRange(x, y + 1) ELSE GenRange(y, x + 1)

\* Line 82 with the assert left out.
ArityUnchecked(p0, p1) == FALSE

\* Line 82.
ArityMismatch(p0, p1) == p0.inputs # p1.inputs

\* The sequences of crossover points mate can draw (lines 87-89).
PointDraws(n) ==
    UNION {[1..c -> GenRange(0, n)] : c \in CountRange(n)}

\* The Mep returned by mate for one outcome of its draws.
MateChild(p0, p1, pts, ums, cp) ==
    Mep(MateProgram(p0, p1, pts), ums, cp, p0.inputs)

\* Lines 79-121: what one call of mate on (p0, p1) can end in. The assert
\* of line 82 comes first; the count of line 87 is the first draw; the
\* points and the two blended parameters follow.
MateOutcomes(p0, p1) ==
    IF ArityMismatch(p0, p1)
    THEN {[err |-> "ArityMismatch", child |-> NoMep, points |-> <<>>, draws |-> 0]}
    ELSE IF CountRange(TotalInstructions(p0, p1)) = {}
    THEN {[err |-> "EmptyRange", child |-> NoMep, points |-> <<>>, draws |-> 0]}
    ELSE {[err |-> "none", child |-> MateChild(p0, p1, pts, ums, cp),
           points |-> pts, draws |-> 1 + Len(pts) + 2] :
             pts \in PointDraws(TotalInstructions(p0, p1)),
             ums \in BlendRange(p0.unit_mutate_size, p1.unit_mutate_size),
             cp \in BlendRange(p0.crossover_points, p1.crossover_points)}

\* mate on (a, b), the child kept beside its parents.
Mate ==
    /\ err = "none" /\ pc = "idle" /\ a # NoMep /\ b # NoMep
    /\ child = NoMep
    /\ \E o \in MateOutcomes(a, b) :
          /\ err' = o.err
          /\ child' = o.child
          /\ points' = o.points
          /\ draws' = o.draws
    /\ UNCHANGED <<a, b, pc, last, outputs, iter, calls, out, args, mlog>>

\* Genomes Mep::new returns when every operand draw is 0 (every operation
\* reads input 0) and when every draw is the largest the range allows
\* (every operation reads its predecessor).
StarMep(inputs, len, ins, ums, cp) ==
    MepNew(inputs, ums, cp, [i \in 1..len |-> ins],
           [i \in 1..len |-> 0], [i \in 1..len |-> 0])

ChainMep(inputs, len, ins, ums, cp) ==
    MepNew(inputs, ums, cp, [i \in 1..len |-> ins],
           [i \in 1..len |-> (i - 1) + inputs - 1],
           [i \in 1..len |-> (i - 1) + inputs - 1])

\* The genomes the genome under evolution is crossed with.
Partners ==
    {StarMep(inputs, MaxLen, MaxIns, MaxParam, 1) : inputs \in 1..MaxInputs}
    \cup {ChainMep(inputs, MaxLen, MaxIns, 1, MaxParam) : inputs \in 1..MaxInputs}

\* a = mate((a, partner)) or a = mate((partner, a)): the child replaces the
\* genome under evolution.
MateAdopt ==
    /\ err = "none" /\ pc = "idle" /\ a # NoMep
    /\ \E partner \in Partners, first \in BOOLEAN :
          \E o \in IF first THEN MateOutcomes(a, partner)
                   ELSE MateOutcomes(partner, a) :
             /\ err' = o.err
             /\ a' = IF o.err = "none" THEN o.child ELSE a
             /\ last' = IF o.err = "none" THEN "mate" ELSE last
    /\ UNCHANGED <<b, child, points, draws, pc, outputs, iter, calls, out, args, mlog>>

\* ------------------------------------------------- lifecycle specification
Init ==
    /\ a = NoMep /\ b = NoMep /\ child = NoMep
    /\ points = <<>> /\ draws = 0
    /\ err = "none" /\ pc = "idle" /\ last = "none"
    /\ outputs = 0 /\ iter = NoIter /\ calls = <<>> /\ out = <<>>
    /\ args = NoArgs /\ mlog = NoLog

Next ==
    \/ New
    \/ MutateBegin
    \/ MutateEmpty
    \/ MutateStop
    \/ MutateStep
    \/ MateAdopt

Spec == Init /\ [][Next]_vars

\* The backward-reference invariant of one genome.
Acyclic(m) ==
    \A i \in 1..Len(m.program) :
        /\ m.program[i].first >= 0 /\ m.program[i].first < m.inputs + (i - 1)
        /\ m.program[i].second >= 0 /\ m.program[i].second < m.inputs + (i - 1)

\* C1: every genome reached by Mep::new followed by any sequence of mate and
\* mutate calls, whatever the rng draws, has first < inputs + k and
\* second < inputs + k at every local index k.
C1_Acyclicity == a # NoMep => Acyclic(a)

\* C1's case: a child of mate, of a length mate accepts, holding an operand
\* equal to the largest address the invariant allows.
C1_Witness ==
    /\ a # NoMep /\ last = "mate"
    /\ Len(a.program) >= 4
    /\ \E i \in 1..Len(a.program) : a.program[i].first = a.inputs + (i - 1) - 1

\* C4: from genomes constructed with both adaptive parameters >= 1, both
\* stay >= 1 after any sequence of mutate calls and in every child of mate.
C4_ParameterFloors ==
    a # NoMep => a.unit_mutate_size >= 1 /\ a.crossover_points >= 1

\* C4's case: mutate has passed its two parameter updates on a non-empty
\* genome and both parameters sit at the floor, where the decrement arm is
\* the one that must not act.
C4_Witness ==
    /\ a # NoMep /\ last = "mutate" /\ pc = "mutating"
    /\ a.unit_mutate_size = 1 /\ a.crossover_points = 1
    /\ Len(a.program) > 0

\* ------------------------------------------------- crossover specification
\* mate as a function of its two parents and its draws: the parents are
\* drawn from genomes Mep::new returns, of every length up to MaxMateLen
\* and of two arities, and mate is applied once.
MateParents ==
    {StarMep(inputs, len, ins, 1, MaxParam) :
        inputs \in 1..2, len \in 0..MaxMateLen, ins \in {0, MaxIns}}
    \cup
    {ChainMep(inputs, len, ins, MaxParam, 1) :
        inputs \in 1..2, len \in 0..MaxMateLen, ins \in {0, MaxIns}}

InitMate ==
    /\ a \in MateParents /\ b \in MateParents /\ child = NoMep
    /\ points = <<>> /\ draws = 0
    /\ err = "none" /\ pc = "idle" /\ last = "new"
    /\ outputs = 0 /\ iter = NoIter /\ calls = <<>> /\ out = <<>>
    /\ args = NoArgs /\ mlog = NoLog

NextMate == Mate

MateSpec == InitMate /\ [][NextMate]_vars

\* C6: whatever the draws, the child mate returns has exactly
\* min(len(parent0), len(parent1)) operations and the parents' inputs.
C6_ChildLength ==
    child # NoMep =>
        /\ Len(child.program) = Min(Len(a.program), Len(b.program))
        /\ child.inputs = a.inputs /\ child.inputs = b.inputs

\* C6's case: parents of different lengths, a point drawn twice and a cut
\* at 0.
C6_Witness ==
    /\ child # NoMep
    /\ Len(a.program) # Len(b.program)
    /\ \E i, j \in DOMAIN points : i # j /\ points[i] = points[j]
    /\ \E i \in DOMAIN points : points[i] = 0

\* The 0-based index of the range [cuts[i-1], cuts[i]) that holds position
\* p, for cuts the duplicate-free set of drawn points united with n: the
\* number of cuts at or below p.
C7_RangeIndex(p) ==
    Cardinality({c \in {points[i] : i \in DOMAIN points} : c <= p})

\* C7: the child's operation at every position p in [0, n) is the operation
\* at position p of parent 0 when the range holding p has an even index,
\* and of parent 1 when it has an odd index.
C7_CrossoverContent ==
    child # NoMep =>
        \A p \in 0..(Min(Len(a.program), Len(b.program)) - 1) :
            child.program[p + 1] =
                IF C7_RangeIndex(p) % 2 = 0 THEN a.program[p + 1]
                ELSE b.program[p + 1]

\* C7's case: two distinct cuts inside the program, so that three ranges
\* alternate, and parents that differ where the child took from each.
C7_Witness ==
    /\ child # NoMep
    /\ Cardinality({points[i] : i \in DOMAIN points} \ {0}) >= 2
    /\ \E p \in 1..Len(child.program) : child.program[p] # a.program[p]
    /\ \E p \in 1..Len(child.program) : child.program[p] # b.program[p]

\* C9: mate on parents whose inputs differ fails with ArityMismatch,
\* returns no child, leaves both parents as they were and has drawn nothing
\* from the rng.
C9_ArityMismatch ==
    [][(/\ a # NoMep /\ b # NoMep /\ a.inputs # b.inputs
        /\ <<child, err, points, draws>>' # <<child, err, points, draws>>)
       => (/\ err' = "ArityMismatch"
           /\ child' = NoMep /\ points' = <<>> /\ draws' = 0
           /\ a' = a /\ b' = b)]_vars

\* C9's case: mate has been called on parents of different arity, both long
\* enough for a crossover.
C9_Witness ==
    /\ err = "ArityMismatch"
    /\ a.inputs # b.inputs
    /\ Len(a.program) >= 4 /\ Len(b.program) >= 4

\* C10: for parents of equal inputs whose shared length is below 4, mate
\* has a defined outcome and never samples from an empty range.
C10_NoEmptyRangeSample ==
    (/\ a # NoMep /\ b # NoMep /\ a.inputs = b.inputs
     /\ Min(Len(a.program), Len(b.program)) < 4)
    => err # "EmptyRange"

\* -------------------------------------------------- mutation specification
\* mutate called again and again on one genome Mep::new returned, of
\* length 0..MaxMutLen, with the fairness of a fair rng: an outcome of the
\* draws that stays possible is eventually drawn.
InitMutate ==
    /\ a \in {StarMep(1, len, 0, ums, 1) :
                len \in 0..MaxMutLen, ums \in 1..MaxParam}
    /\ b = NoMep /\ child = NoMep
    /\ points = <<>> /\ draws = 0
    /\ err = "none" /\ pc = "idle" /\ last = "new"
    /\ outputs = 0 /\ iter = NoIter /\ calls = <<>> /\ out = <<>>
    /\ args = NoArgs /\ mlog = NoLog

NextMutate ==
    \/ MutateBegin
    \/ MutateEmpty
    \/ MutateStop
    \/ MutateStep

MutateSpec ==
    /\ InitMutate /\ [][NextMutate]_vars
    /\ WF_vars(NextMutate)
    /\ WF_vars(MutateStop)

\* C5: on a non-empty genome with unit_mutate_size >= 1 (1 included), the
\* loop of mutate eventually draws a candidate >= len(operations) and the
\* call returns.
C5_MutateTerminates ==
    (pc = "mutating" /\ Len(a.program) > 0) ~> (pc = "idle")

\* ------------------------------------------------------------- evaluation
\* Option<Param>.
None == [some |-> FALSE]
Some(x) == [some |-> TRUE, val |-> x]

\* The processor handed to execute: a pure function of the instruction and
\* the two operand values, not symmetric in the operands.
processor(ins, x, y) == (ins + x + 2 * y + 1) % ValueMod

\* Line 219: the index `program` is read at for global address i.
OpIndex(m, i) == i

\* Lines 207-228, the closure op_solved at global address i. st carries the
\* memo buffer, the invocation counts, the panic if any, and the value
\* returned. An index outside its vector panics. `depth` is the number of
\* calls of op_solved in progress: more of them than there are operations
\* means an address is being solved inside its own solution, which never
\* returns and ends in a stack overflow.
RECURSIVE op_solved(_, _, _, _, _)
op_solved(m, slice, st, i, depth) ==
    IF st.err # "none" THEN st
    ELSE IF depth > Len(m.program) + 1 THEN [st EXCEPT !.err = "StackOverflow"]
    ELSE IF i < m.inputs
    THEN IF i + 1 > Len(slice) THEN [st EXCEPT !.err = "IndexOutOfBounds"]
         ELSE [st EXCEPT !.val = slice[i + 1]]
    ELSE IF (i - m.inputs) + 1 > Len(st.buff)
    THEN [st EXCEPT !.err = "IndexOutOfBounds"]
    ELSE IF st.buff[(i - m.inputs) + 1].some
    THEN [st EXCEPT !.val = st.buff[(i - m.inputs) + 1].val]
    ELSE IF OpIndex(m, i) < 0 \/ OpIndex(m, i) + 1 > Len(m.program)
    THEN [st EXCEPT !.err = "IndexOutOfBounds"]
    ELSE LET op == m.program[OpIndex(m, i) + 1]
             s1 == op_solved(m, slice, st, op.first, depth + 1)
             s2 == op_solved(m, slice, s1, op.second, depth + 1)
             result == processor(op.instruction, s1.val, s2.val)
         IN  IF s2.err # "none" THEN s2
             ELSE [s2 EXCEPT
                     !.calls[OpIndex(m, i) + 1] = @ + 1,
                     !.buff[(i - m.inputs) + 1] = Some(result),
                     !.val = result]

\* The input slices execute is called with: at least m.inputs values.
InputSlices(m) ==
    {[i \in 1..n |-> (v + i) % ValueMod] : n \in {m.inputs, m.inputs + 1}, v \in 0..1}

\* Lines 185-196: the assert, then the iterator with an empty memo buffer
\* and the range of the last `outputs` global addresses, to be walked from
\* its high end (solve_iter holds lo..hi - 1).
Execute ==
    /\ err = "none" /\ pc = "idle" /\ a # NoMep /\ iter = NoIter
    /\ \E n \in 0..(Len(a.program) + 1), slice \in InputSlices(a) :
          /\ outputs' = n
          /\ IF ~(n <= Len(a.program))
             THEN /\ err' = "InsufficientOperations"
                  /\ UNCHANGED <<iter, calls>>
             ELSE /\ iter' = [mep |-> a,
                              buff |-> [k \in 1..Len(a.program) |-> None],
                              lo |-> Len(a.program) + a.inputs - n,
                              hi |-> Len(a.program) + a.inputs,
                              inputs |-> slice]
                  /\ calls' = [k \in 1..Len(a.program) |-> 0]
                  /\ UNCHANGED err
    /\ last' = "execute"
    /\ out' = <<>>
    /\ UNCHANGED <<a, b, child, points, draws, pc, args, mlog>>

\* Lines 202-233: next() takes the highest address left in solve_iter and
\* solves it; an exhausted solve_iter gives None and changes nothing.
IterNext ==
    /\ err = "none" /\ iter # NoIter
    /\ IF iter.lo >= iter.hi
       THEN UNCHANGED <<iter, calls, out, err>>
       ELSE LET i == iter.hi - 1
                st == op_solved(iter.mep, iter.inputs,
                                [buff |-> iter.buff, calls |-> calls,
                                 err |-> "none", val |-> 0], i, 1)
            IN  /\ iter' = [iter EXCEPT !.hi = i, !.buff = st.buff]
                /\ calls' = st.calls
                /\ err' = st.err
                /\ out' = IF st.err = "none" THEN Append(out, st.val) ELSE out
    /\ UNCHANGED <<a, b, child, points, draws, pc, last, outputs, args, mlog>>

\* ------------------------------------------------ evaluation specification
\* execute and next on every genome Mep::new returns with at most
\* MaxEvalLen operations and at most MaxInputs + 1 inputs.
NewGenomes(inputs, payloads) ==
    IF NewPanics(inputs, Len(payloads)) THEN {}
    ELSE {MepNew(inputs, 1, 1, payloads, firsts, seconds) :
            firsts \in OperandDraws(inputs, Len(payloads)),
            seconds \in OperandDraws(inputs, Len(payloads))}

InitEval ==
    /\ \E inputs \in 0..(MaxInputs + 1), payloads \in PayloadSeqs(MaxEvalLen) :
          a \in NewGenomes(inputs, payloads)
    /\ b = NoMep /\ child = NoMep
    /\ points = <<>> /\ draws = 0
    /\ err = "none" /\ pc = "idle" /\ last = "new"
    /\ outputs = 0 /\ iter = NoIter /\ calls = <<>> /\ out = <<>>
    /\ args = NoArgs /\ mlog = NoLog

NextEval ==
    \/ Execute
    \/ IterNext

EvalSpec == InitEval /\ [][NextEval]_vars

\* value(i) of C2: the input at an input address, the reduction of the two
\* operand values at an operation address, the operation being the one at
\* local index i - inputs.
RECURSIVE C2_Value(_, _, _)
C2_Value(m, slice, i) ==
    IF i < m.inputs THEN slice[i + 1]
    ELSE LET op == m.program[(i - m.inputs) + 1]
         IN  processor(op.instruction, C2_Value(m, slice, op.first),
                       C2_Value(m, slice, op.second))

\* C2: an evaluation of a valid genome with enough inputs and
\* outputs <= len(operations) yields exactly `outputs` values, the j-th
\* (0 first) being value(inputs + len - 1 - j): every next() asked of the
\* iterator returns, with that value, until `outputs` values are out.
C2_EvaluationResult ==
    iter # NoIter =>
        /\ err = "none"
        /\ Len(out) = (Len(a.program) + a.inputs) - iter.hi
        /\ Len(out) <= outputs
        /\ \A j \in 0..(Len(out) - 1) :
              out[j + 1] =
                  C2_Value(a, iter.inputs, a.inputs + Len(a.program) - 1 - j)

\* The local indices of the operations reachable through first/second from
\* the global addresses in S.
RECURSIVE C3_Reach(_, _)
C3_Reach(m, S) ==
    LET ops == {i - m.inputs : i \in {x \in S : x >= m.inputs}}
        more == {m.program[k + 1].first : k \in ops}
                  \cup {m.program[k + 1].second : k \in ops}
    IN  IF more \subseteq S THEN ops ELSE C3_Reach(m, S \cup more)

\* C3: within one evaluation the processor is invoked at most once for each
\* operation, and exactly once for each operation reachable from an output
\* that next() has been asked for.
C3_Memoization ==
    iter # NoIter =>
        /\ \A k \in 1..Len(a.program) : calls[k] <= 1
        /\ \A k \in C3_Reach(a, iter.hi..(Len(a.program) + a.inputs - 1)) :
              calls[k + 1] = 1

\* C8: execute fails with InsufficientOperations exactly when
\* outputs > len(operations), before the processor is invoked for any
\* operation; outputs = len(operations) is accepted and yields a value for
\* every operation.
C8_EvaluationPrecondition ==
    last = "execute" =>
        /\ (err = "InsufficientOperations") <=> (iter = NoIter)
        /\ (iter = NoIter) <=> (outputs > Len(a.program))
        /\ iter = NoIter => calls = <<>> /\ out = <<>>
        /\ (iter # NoIter /\ outputs = Len(a.program)) =>
              /\ err = "none"
              /\ iter.lo >= iter.hi => Len(out) = Len(a.program)

\* ----------------------------------------------- constructor specification
\* One call of Mep::new, its arguments kept beside what it returned.
NewLogged ==
    /\ err = "none" /\ pc = "idle" /\ a = NoMep
    /\ \E inputs \in 0..MaxInputs, ums \in 0..MaxParam, cp \in 0..MaxParam,
          payloads \in PayloadSeqs(MaxNewLen) :
          /\ NewOutcome(inputs, ums, cp, payloads)
          /\ args' = [inputs |-> inputs, unit_mutate_size |-> ums,
                      crossover_points |-> cp, payloads |-> payloads]
    /\ UNCHANGED <<b, child, points, draws, pc, outputs, iter, calls, out, mlog>>

NextNew == NewLogged

NewSpec == Init /\ [][NextNew]_vars

\* What C11 says of a call that returned: the genome holds the payloads in
\* the given order and the given inputs and adaptive parameters, and each
\* operand of operation k lies in [0, inputs + k).
C11_Returned ==
    /\ err = "none" /\ a # NoMep
    /\ Len(a.program) = Len(args.payloads)
    /\ \A i \in 1..Len(a.program) :
          /\ a.program[i].instruction = args.payloads[i]
          /\ a.program[i].first \in 0..(args.inputs + (i - 1) - 1)
          /\ a.program[i].second \in 0..(args.inputs + (i - 1) - 1)
    /\ a.inputs = args.inputs
    /\ a.unit_mutate_size = args.unit_mutate_size
    /\ a.crossover_points = args.crossover_points

\* C11 as stated: Mep::new has no error path; for every inputs >= 0
\* (0 included) and every payload sequence (the empty one included) it
\* returns the genome of C11_Returned.
C11_NoErrorPath == args # NoArgs => C11_Returned

\* C11 as amended: Mep::new returns the genome of C11_Returned for every
\* inputs >= 1 and for an empty payload sequence; for inputs = 0 and a
\* non-empty payload sequence it panics and returns no genome.
C11_NewTotalButZeroInputs ==
    args # NoArgs =>
        IF args.inputs = 0 /\ Len(args.payloads) >= 1
        THEN err = "EmptyRange" /\ a = NoMep
        ELSE C11_Returned

\* C11's case: a call with inputs >= 1 and the longest payload sequence,
\* distinct adaptive parameters, whose last operation reads its predecessor.
C11_Witness ==
    /\ args # NoArgs /\ a # NoMep
    /\ args.inputs >= 1 /\ Len(args.payloads) = MaxNewLen
    /\ args.unit_mutate_size # args.crossover_points
    /\ a.program[MaxNewLen].first = args.inputs + MaxNewLen - 2

\* The larger of two parameter values.
C12_Max(x, y) == IF x < y THEN y ELSE x

\* The parents of the state are ones mate returns a child for.
C12_MateReturns ==
    /\ a # NoMep /\ b # NoMep /\ a.inputs = b.inputs
    /\ Min(Len(a.program), Len(b.program)) >= 4

\* C12: the child's unit_mutate_size lies between the parents' values, ends
\* included, and so does its crossover_points; the values mate can return
\* for either parameter are all the values of that range, and they are the
\* same with the parents swapped.
C12_ParameterBlending ==
    C12_MateReturns =>
        /\ child # NoMep =>
              /\ child.unit_mutate_size \in
                    Min(a.unit_mutate_size, b.unit_mutate_size)
                      ..C12_Max(a.unit_mutate_size, b.unit_mutate_size)
              /\ child.crossover_points \in
                    Min(a.crossover_points, b.crossover_points)
                      ..C12_Max(a.crossover_points, b.crossover_points)
        /\ (child = NoMep /\ err = "none") =>
              LET outs == MateOutcomes(a, b)
                  back == MateOutcomes(b, a)
              IN  /\ {o.child.unit_mutate_size : o \in outs}
                        = Min(a.unit_mutate_size, b.unit_mutate_size)
                            ..C12_Max(a.unit_mutate_size, b.unit_mutate_size)
                  /\ {o.child.crossover_points : o \in outs}
                        = Min(a.crossover_points, b.crossover_points)
                            ..C12_Max(a.crossover_points, b.crossover_points)
                  /\ {o.child.unit_mutate_size : o \in back}
                        = {o.child.unit_mutate_size : o \in outs}
                  /\ {o.child.crossover_points : o \in back}
                        = {o.child.crossover_points : o \in outs}

\* C12's case: parents whose parameters differ in opposite directions, and
\* a child that took the larger unit_mutate_size (the inclusive upper end)
\* and the smaller crossover_points.
C12_Witness ==
    /\ child # NoMep
    /\ a.unit_mutate_size < b.unit_mutate_size
    /\ a.crossover_points > b.crossover_points
    /\ child.unit_mutate_size = b.unit_mutate_size
    /\ child.crossover_points = b.crossover_points

\* -------------------------------------------- mutation frame specification
\* mutate as in MutateSpec, each pass of the loop that keeps its candidate
\* recorded with the candidate and the arm it took.
MutateStepLogged ==
    /\ err = "none" /\ pc = "mutating"
    /\ \E choice \in Choices(a), kind \in GenRange(0, 3) :
          /\ StepOutcome(choice, kind)
          /\ mlog' = [choice |-> choice, kind |-> kind,
                      flip |-> IF mlog = NoLog THEN TRUE ELSE ~mlog.flip]
    /\ UNCHANGED <<b, child, points, draws, last, outputs, iter, calls, out, args>>

NextFrame ==
    \/ MutateBegin
    \/ MutateEmpty
    \/ MutateStop
    \/ MutateStepLogged

FrameSpec == InitMutate /\ [][NextFrame]_vars

\* A step inside a mutate call leaves the number of operations and inputs
\* as they were.
C13_ShapeKept ==
    (pc = "mutating" \/ pc' = "mutating") =>
        /\ Len(a'.program) = Len(a.program)
        /\ a'.inputs = a.inputs

\* The fields of the operation at position k that differ between the
\* genome before and after the step.
C13_Changed(k) ==
    {f \in {"instruction", "first", "second"} :
        a'.program[k][f] # a.program[k][f]}

\* The field the arm `kind` writes.
C13_Field(kind) ==
    IF kind = 0 THEN "instruction" ELSE IF kind = 1 THEN "first" ELSE "second"

\* C13 as stated: a mutate call never changes len(operations) or inputs,
\* and each pass of the loop that keeps its candidate changes exactly one of
\* instruction, first and second of the operation at the candidate, and
\* nothing else.
C13_MutateFrame ==
    [][/\ C13_ShapeKept
       /\ mlog' # mlog =>
            /\ Cardinality(C13_Changed(mlog'.choice + 1)) = 1
            /\ \A k \in 1..Len(a.program) :
                  k # mlog'.choice + 1 => a'.program[k] = a.program[k]]_vars

\* C13 as amended: a mutate call never changes len(operations) or inputs,
\* and each pass of the loop that keeps its candidate writes exactly one of
\* instruction, first and second of the operation at the candidate, so
\* that no field but that one differs afterwards (the value written may be
\* the one already there), and nothing else changes.
C13_MutateFrameWrites ==
    [][/\ C13_ShapeKept
       /\ mlog' # mlog =>
            /\ C13_Changed(mlog'.choice + 1) \subseteq {C13_Field(mlog'.kind)}
            /\ \A k \in 1..Len(a.program) :
                  k # mlog'.choice + 1 => a'.program[k] = a.program[k]
            /\ a'.unit_mutate_size = a.unit_mutate_size
            /\ a'.crossover_points = a.crossover_points]_vars

\* C13's case: the last pass took the arm for `second` on the last
\* operation of a genome of the longest length, whose `second` is no longer
\* the 0 it was constructed with while its `first` still is.
C13_Witness ==
    /\ mlog # NoLog /\ pc = "mutating"
    /\ Len(a.program) = MaxMutLen
    /\ mlog.choice = MaxMutLen - 1 /\ mlog.kind = 2
    /\ a.program[MaxMutLen].second # 0
    /\ a.program[MaxMutLen].first = 0

\* A second evaluation of genome m on the same input slice, asked for n
\* outputs from an empty memo buffer of its own: the values it yields, and
\* the panic that ended it if one did.
RECURSIVE C14_Again(_, _, _, _)
C14_Again(m, slice, n, st) ==
    IF n = 0 \/ st.err # "none" THEN st
    ELSE LET i == Len(m.program) + m.inputs - 1 - Len(st.out)
             r == op_solved(m, slice,
                            [buff |-> st.buff,
                             calls |-> [k \in 1..Len(m.program) |-> 0],
                             err |-> "none", val |-> 0], i, 1)
         IN  C14_Again(m, slice, n - 1,
                       [buff |-> r.buff, err |-> r.err,
                        out |-> IF r.err = "none" THEN Append(st.out, r.val)
                                ELSE st.out])

C15_IndexSafety ==
    (iter # NoIter /\ Acyclic(iter.mep) /\ Len(iter.inputs) >= iter.mep.inputs
        /\ outputs <= Len(iter.mep.program))
        => err # "IndexOutOfBounds"

\* C16: at every point of an evaluation, once the j highest addresses have
\* been asked of the iterator (j = 0 right after execute), the operations
\* whose memo slot is populated are exactly those reachable through
\* first/second from the j highest-indexed operations, and no other
\* operation has been handed to the processor.
C16_Laziness ==
    iter # NoIter =>
        LET top == Len(a.program) + a.inputs - 1
            reached == C3_Reach(a, iter.hi..top)
        IN  /\ {k \in 0..(Len(a.program) - 1) : iter.buff[k + 1].some} = reached
            /\ {k \in 0..(Len(a.program) - 1) : calls[k + 1] > 0} \subseteq reached

\* Genome m with crossover_points set to cp and nothing else changed.
C17_With(m, cp) == [m EXCEPT !.crossover_points = cp]

\* What an outcome of mate shows apart from the child's crossover_points.
C17_Rest(o) ==
    IF o.err # "none" THEN <<o.err>>
    ELSE <<o.points, o.child.program, o.child.unit_mutate_size, o.child.inputs>>

\* C17: crossover_points does not drive recombination. For parents that
\* differ from (a, b) only in their crossover_points, mate can make the
\* same draws of cut count and cut positions and for the same draws gives
\* the same operations; in particular the child mate returned has the
\* operations the other parents give for the points drawn.
C17_CrossoverPointsInert ==
    (a # NoMep /\ b # NoMep /\ err = "none") =>
        \A ca \in 1..MaxParam, cb \in 1..MaxParam :
            /\ child = NoMep =>
                  {C17_Rest(o) : o \in MateOutcomes(C17_With(a, ca), C17_With(b, cb))}
                      = {C17_Rest(o) : o \in MateOutcomes(a, b)}
            /\ child # NoMep =>
                  child.program = MateProgram(C17_With(a, ca), C17_With(b, cb), points)

\* C17's case: mate returned a child of parents with different
\* crossover_points, made with two distinct cuts where the first parent's
\* crossover_points and the child's are both 1, and equal to neither parent.
C17_Witness ==
    /\ child # NoMep /\ err = "none"
    /\ a.crossover_points # b.crossover_points
    /\ Cardinality({points[i] : i \in DOMAIN points}) = 2
    /\ a.crossover_points = 1 /\ child.crossover_points = 1
    /\ child.program # a.program /\ child.program # b.program

====
